---- MODULE Spec2Model ----
(***************************************************************************)
(* A model of the plugin repository updater (bin/update.py) and of the     *)
(* site builder's metadata extraction (build.py).                          *)
(*                                                                         *)
(*   Spec         the update pipeline: main, the per-plugin tasks joined   *)
(*                by asyncio.gather, _RepoConfig and its write to disk     *)
(*   SpecRelease  _GitHubRelease.get on bounded release listings           *)
(*   SpecMeta     _Plugin._meta and PluginContext._metadata on bounded     *)
(*                distribution archives                                    *)
(***************************************************************************)
EXTENDS Integers, Sequences, FiniteSets, TLC

VARIABLES
    \* ---- the update pipeline (Spec)
    config,       \* config["plugins"]: sequence of [repo, artifact]
    github,       \* what GitHub serves for each repo during the run
    prior,        \* the registry file as it was before the run (history)
    task,         \* the coroutine of each _Plugin.get: pc, url, result
    arrival,      \* the order in which the tasks settled (history)
    gather_exc,   \* the exception gather's future holds: 0, or the task that raised first
    mainpc,       \* where main() is
    plugins,      \* main's `plugins`, the list gather returned
    repo_config,  \* _RepoConfig._xml: the <plugin> elements under <plugins>
    index_context,\* _IndexFile._context["plugins"]
    fs,           \* the files: "repo_config" and "index"
    \* ---- _GitHubRelease.get alone (SpecRelease)
    r_pc, r_content, r_result,
    \* ---- metadata extraction alone (SpecMeta)
    m_pc, m_jar, m_update, m_build

vars == << config, github, prior, task, arrival, gather_exc, mainpc, plugins,
           repo_config, index_context, fs,
           r_pc, r_content, r_result, m_pc, m_jar, m_update, m_build >>

pipelineVars == << config, github, prior, task, arrival, gather_exc, mainpc,
                   plugins, repo_config, index_context, fs >>
releaseVars == << r_pc, r_content, r_result >>
metaVars == << m_pc, m_jar, m_update, m_build >>

----------------------------------------------------------------------------
(* Bounds *)

MaxPlugins == 2     \* entries of config["plugins"]
MaxReleases == 2    \* releases in a listing (SpecRelease)
MaxLib == 2         \* entries under <root>/lib/ (SpecMeta)

----------------------------------------------------------------------------
(* Results of a call: a value, or the exception it raised. *)

Ok(v) == [err |-> "", value |-> <<v>>]
Raise(e) == [err |-> e, value |-> <<>>]
Failed(r) == r.err # ""
Val(r) == r.value[1]

----------------------------------------------------------------------------
(* Semantic versions, as semver.VersionInfo compares them.                 *)
(* A version is [major, minor, patch, pre]; pre is the sequence of         *)
(* pre-release identifiers, each numeric or alphanumeric.                  *)

Beta == [num |-> FALSE, val |-> 1]     \* "beta"
Rc == [num |-> FALSE, val |-> 2]       \* "rc"
One == [num |-> TRUE, val |-> 1]       \* "1"

PreSet == { <<>>, <<Beta>>, <<Beta, One>>, <<Rc>> }

Versions == [major : {1, 2}, minor : {0, 1}, patch : {0, 1}, pre : PreSet]

\* A Git tag: `v` leading "v" characters, then either the text of a version
\* (ok) or something VersionInfo.parse rejects.
Tags == [v : {0, 1}, ok : {TRUE}, ver : Versions]
          \cup { [v |-> 0, ok |-> FALSE, ver |-> [major |-> 1, minor |-> 0, patch |-> 0, pre |-> <<>>]] }

Cmp(a, b) == IF a < b THEN -1 ELSE IF a > b THEN 1 ELSE 0

\* One pre-release identifier against another: numeric ones by value and
\* below every alphanumeric one, alphanumeric ones lexically.
CmpIdent(a, b) ==
    IF a.num /\ b.num THEN Cmp(a.val, b.val)
    ELSE IF a.num THEN -1
    ELSE IF b.num THEN 1
    ELSE Cmp(a.val, b.val)

RECURSIVE CmpPre(_, _)
CmpPre(p, q) ==
    IF p = <<>> \/ q = <<>> THEN Cmp(Len(p), Len(q))
    ELSE LET c == CmpIdent(Head(p), Head(q))
         IN  IF c # 0 THEN c ELSE CmpPre(Tail(p), Tail(q))

\* VersionInfo.compare: the numeric triple first; then a version with a
\* pre-release is below the same version without one.
CompareTriple(x, y) ==
    IF x.major # y.major THEN Cmp(x.major, y.major)
    ELSE IF x.minor # y.minor THEN Cmp(x.minor, y.minor)
    ELSE Cmp(x.patch, y.patch)

Compare(x, y) ==
    LET c == CompareTriple(x, y)
    IN  IF c # 0 THEN c
        ELSE IF x.pre = <<>> /\ y.pre = <<>> THEN 0
        ELSE IF x.pre = <<>> THEN 1
        ELSE IF y.pre = <<>> THEN -1
        ELSE CmpPre(x.pre, y.pre)

\* tag.lstrip("v"): every leading "v" goes.
Lstrip(tag) == [tag EXCEPT !.v = 0]

\* _GitHubRelease._semver
Semver(tag) ==
    LET s == Lstrip(tag)
    IN  IF s.ok /\ s.v = 0 THEN Ok(s.ver) ELSE Raise("ValueError")

----------------------------------------------------------------------------
(* _GitHubRelease.get *)

NoTag == [v |-> 0, ok |-> FALSE, ver |-> [major |-> 0, minor |-> 0, patch |-> 0, pre |-> <<>>]]

\* A release resource of the listing.
Release(tag, assets) == [tag_name |-> tag, assets |-> assets]

RECURSIVE Keys(_)
\* The keys of {item["tag_name"]: item for item in content}, in insertion order.
Keys(content) ==
    IF content = <<>> THEN <<>>
    ELSE LET init == Keys(SubSeq(content, 1, Len(content) - 1))
             k == content[Len(content)].tag_name
         IN  IF \E i \in 1..Len(init) : init[i] = k THEN init ELSE Append(init, k)

\* releases[tag]: the last item of the listing with that tag.
Lookup(content, tag) ==
    LET S == { i \in 1..Len(content) : content[i].tag_name = tag }
    IN  content[CHOOSE i \in S : \A j \in S : j <= i]

RECURSIVE MaxFrom(_, _)
\* max(keys, key=_semver): the first key no later key exceeds.
MaxFrom(best, rest) ==
    IF rest = <<>> THEN best
    ELSE IF Compare(Val(Semver(Head(rest))), Val(Semver(best))) > 0
         THEN MaxFrom(Head(rest), Tail(rest))
         ELSE MaxFrom(best, Tail(rest))

\* The first key of the listing, taken for the latest release.
FirstTag(keys) == Head(keys)

MaxTag(keys) == MaxFrom(Head(keys), Tail(keys))

GitHubReleaseGet(content, tag) ==
    LET keys == Keys(content)
    IN  IF tag = NoTag
        THEN IF keys = <<>> THEN Raise("ValueError")
             ELSE IF \E i \in 1..Len(keys) : Failed(Semver(keys[i]))
                  THEN Raise("ValueError")
                  ELSE LET t == MaxTag(keys)
                           rel == Lookup(content, t)
                       IN  Ok([release |-> rel, version |-> Val(Semver(rel.tag_name))])
        ELSE IF \E i \in 1..Len(keys) : keys[i] = tag
             THEN LET rel == Lookup(content, tag)
                  IN  IF Failed(Semver(rel.tag_name)) THEN Raise("ValueError")
                      ELSE Ok([release |-> rel, version |-> Val(Semver(rel.tag_name))])
             ELSE Raise("KeyError")

----------------------------------------------------------------------------
(* Distribution archives.                                                  *)
(* A jar is what ZipPath enumerates: `top`, the top-level entries in       *)
(* enumeration order; the plugin's root directory is the entry named       *)
(* RootName, with (haslib) or without a lib/ directory whose entries, in   *)
(* enumeration order, are `lib`.  A name is a sequence of characters.      *)

RootName == <<"p">>
DirName == <<"d">>
FileName == <<"f">>

PluginDir == [name |-> RootName, is_dir |-> TRUE]
OtherDir == [name |-> DirName, is_dir |-> TRUE]
TopFile == [name |-> FileName, is_dir |-> FALSE]

TopEntries == { PluginDir, OtherDir, TopFile }

LibNames == { <<"p">>, <<"p", "x">>, <<"x", "p">>, <<"x">> }

\* Text of a child element; None is the text of an empty element.
None == "None"

TextKeys == { "id", "name", "version", "description" }

\* plugin.xml documents: `text` maps the text children present to their
\* text, `iv` is <<>> or holds the attributes of <idea-version>.
Descriptor(id, version, iv) ==
    [present |-> TRUE,
     text |-> [k \in TextKeys |-> CASE k = "id" -> id
                                    [] k = "version" -> version
                                    [] OTHER -> k],
     iv |-> iv]

Without(doc, key) ==
    [doc EXCEPT !.text = [k \in (DOMAIN doc.text) \ {key} |-> doc.text[k]]]

\* A library without META-INF/plugin.xml.
NoDoc == [present |-> FALSE, text |-> [k \in {} |-> ""], iv |-> <<>>]

SinceBuild == [k \in {"since-build"} |-> "203"]

IsPrefix(p, s) == Len(p) <= Len(s) /\ SubSeq(s, 1, Len(p)) = p

\* item.name.startswith(root_dir.name)
StartsWith(name, root) == IsPrefix(root, name)

\* root_dir.name in item.name
Contains(name, root) ==
    \E i \in 1..(Len(name) + 1) :
        i + Len(root) - 1 <= Len(name) /\ SubSeq(name, i, i + Len(root) - 1) = root

\* jar.root.joinpath(<name>, "lib").iterdir(): only the plugin's root
\* directory can hold a lib/ directory.
LibDir(jar, root_dir) ==
    IF root_dir = PluginDir /\ jar.haslib THEN Ok(jar.lib) ELSE Raise("CantListdir")

\* root_dir = next(jar.root.iterdir()); assert root_dir.is_dir()
RootDir(jar) ==
    IF jar.top = <<>> THEN Raise("StopIteration")
    ELSE IF ~ jar.top[1].is_dir THEN Raise("AssertionError")
    ELSE Ok(jar.top[1])

FirstIn(S) == IF S = {} THEN 0 ELSE CHOOSE i \in S : \A j \in S : i <= j

\* update.py: the first entry of lib/ whose name starts with the root's.
FindLibUpdate(lib, root) ==
    FirstIn({ i \in 1..Len(lib) : StartsWith(lib[i].name, root.name) })

\* A rule that takes only the entry named exactly as the root.
FindLibExact(lib, root) ==
    FirstIn({ i \in 1..Len(lib) : lib[i].name = root.name })

\* build.py: the first entry of lib/ whose name contains the root's.
FindLibBuild(lib, root) ==
    FirstIn({ i \in 1..Len(lib) : Contains(lib[i].name, root.name) })

\* etree.parse(lib.item(meta_file)), then root.find(key).text for the four
\* text keys and root.find("idea-version").attrib.
ReadDescriptor(doc) ==
    IF ~ doc.present THEN Raise("KeyError")
    ELSE IF DOMAIN doc.text # TextKeys THEN Raise("AttributeError")
    ELSE IF doc.iv = <<>> THEN Raise("AttributeError")
    ELSE Ok([id |-> doc.text["id"], name |-> doc.text["name"],
             version |-> doc.text["version"],
             description |-> doc.text["description"],
             iv |-> doc.iv[1]])

\* _Plugin._meta up to the choice of the plugin library: its index in lib/.
PluginLibrary(jar) ==
    LET r == RootDir(jar)
    IN  IF Failed(r) THEN r
        ELSE LET l == LibDir(jar, Val(r))
             IN  IF Failed(l) THEN l
                 ELSE LET i == FindLibUpdate(Val(l), Val(r))
                      IN  IF i = 0 THEN Raise("CouldNotFind") ELSE Ok(i)

\* _Plugin._meta
Meta(jar) ==
    LET i == PluginLibrary(jar)
    IN  IF Failed(i) THEN i ELSE ReadDescriptor(jar.lib[Val(i)].doc)

\* PluginContext._metadata up to the choice of the plugin library.
BuildLibrary(jar) ==
    LET r == RootDir(jar)
    IN  IF Failed(r) THEN r
        ELSE LET l == LibDir(jar, Val(r))
             IN  IF Failed(l) THEN l
                 ELSE LET i == FindLibBuild(Val(l), Val(r))
                      IN  IF i = 0 THEN Raise("CouldNotFind") ELSE Ok(i)

\* PluginContext._metadata: the metadata and the jar's url.
Metadata(jar) ==
    LET i == BuildLibrary(jar)
    IN  IF Failed(i) THEN i
        ELSE LET m == ReadDescriptor(jar.lib[Val(i)].doc)
             IN  IF Failed(m) THEN m ELSE Ok([meta |-> Val(m), url |-> jar.url])

----------------------------------------------------------------------------
(* The update pipeline: what the run is given. *)

Repos == { "r1", "r2" }
Artifacts == { "p" }

V(major, minor, patch, pre) ==
    [major |-> major, minor |-> minor, patch |-> patch, pre |-> pre]
T(v, ver) == [v |-> v, ok |-> TRUE, ver |-> ver]

\* The asset name f"{artifact}-{release.version}.zip"
AssetName(artifact, version) == [artifact |-> artifact, version |-> version]

\* The asset's browser_download_url
AssetUrl(repo, rel, name) == [repo |-> repo, tag |-> rel.tag_name, name |-> name]

Jar(top, haslib, lib) == [top |-> top, haslib |-> haslib, lib |-> lib, url |-> "url"]

LibEntry(name, doc) == [name |-> name, doc |-> doc]

GoodJar(id, version) ==
    Jar(<<PluginDir>>, TRUE,
        << LibEntry(<<"x">>, NoDoc),
           LibEntry(<<"p", "x">>, Descriptor(id, version, <<SinceBuild>>)) >>)

Listing ==
    << Release(T(1, V(1, 0, 0, <<>>)), { AssetName("p", V(1, 0, 0, <<>>)) }),
       Release(T(1, V(2, 0, 0, <<>>)), { AssetName("p", V(2, 0, 0, <<>>)) }),
       Release(T(1, V(2, 0, 0, <<Beta>>)), { AssetName("p", V(2, 0, 0, <<Beta>>)) }) >>

ListingNoAsset ==
    << Release(T(1, V(1, 0, 0, <<>>)), { AssetName("p", V(1, 0, 0, <<>>)) }),
       Release(T(1, V(1, 1, 0, <<>>)), {}) >>

World(listing, download, jar) ==
    [listing |-> listing, download |-> download, jar |-> jar]

\* What a repo may serve: a plugin with id A or B; an unreachable release
\* listing; a latest release without the asset; a download that fails; a
\* distribution without a plugin library; a descriptor with an empty
\* <version/>.
Worlds ==
    { World(Ok(Listing), TRUE, GoodJar("A", "2.0")),
      World(Ok(Listing), TRUE, GoodJar("B", "2.0")),
      World(Raise("ClientError"), TRUE, GoodJar("A", "2.0")),
      World(Ok(ListingNoAsset), TRUE, GoodJar("A", "2.0")),
      World(Ok(Listing), FALSE, GoodJar("A", "2.0")),
      World(Ok(Listing), TRUE,
            Jar(<<PluginDir>>, TRUE, << LibEntry(<<"x">>, NoDoc) >>)),
      World(Ok(Listing), TRUE, GoodJar("A", None)) }

Configs ==
    UNION { [1..n -> [repo : Repos, artifact : Artifacts]] : n \in 0..MaxPlugins }

\* Files.  A registry file holds the <plugin> elements written so far;
\* `torn` says the text ends inside an element, `closed` that </plugins>
\* was written and the file closed.
NoFile == [exists |-> FALSE, elems |-> <<>>, torn |-> FALSE, closed |-> FALSE]
WholeFile(elems) == [exists |-> TRUE, elems |-> elems, torn |-> FALSE, closed |-> TRUE]

OldUrl == AssetUrl("r1", Listing[1], AssetName("p", V(1, 0, 0, <<>>)))

Element(id, version, url, iv) ==
    [id |-> id, version |-> version, url |-> url,
     child |-> [k \in {"idea-version"} |-> iv]]

PriorFiles ==
    { NoFile,
      WholeFile(<< Element("C", "1.0", OldUrl, SinceBuild),
                   Element("A", "1.0", OldUrl, SinceBuild) >>) }

----------------------------------------------------------------------------
(* _Plugin *)

NoUrl == AssetUrl("", Release(NoTag, {}), AssetName("", V(0, 0, 0, <<>>)))
NoMeta == [id |-> "", name |-> "", version |-> "", description |-> "",
           iv |-> [k \in {} |-> ""]]
\* A slot of gather's result list that holds no plugin.
NoPlugin == [url |-> NoUrl, meta |-> NoMeta]

\* _Plugin.get up to the download: the release, the asset name, its url.
ResolveAsset(world, repo, artifact) ==
    IF Failed(world.listing) THEN world.listing
    ELSE LET r == GitHubReleaseGet(Val(world.listing), NoTag)
         IN  IF Failed(r) THEN r
             ELSE LET name == AssetName(artifact, Val(r).version)
                  IN  IF name \in Val(r).release.assets
                      THEN Ok(AssetUrl(repo, Val(r).release, name))
                      ELSE Raise("KeyError")

\* _Plugin(url, jar)
NewPlugin(url, jar) ==
    LET m == Meta(jar)
    IN  IF Failed(m) THEN m ELSE Ok([url |-> url, meta |-> Val(m)])

----------------------------------------------------------------------------
(* _RepoConfig *)

\* The <plugin> element _add makes of a plugin.
PluginElement(plugin) ==
    Element(plugin.meta.id, plugin.meta.version, plugin.url, plugin.meta.iv)

\* An _add that updates the element of the same id, if there is one.
Upsert(xml, plugin) ==
    IF \E k \in 1..Len(xml) : xml[k].id = plugin.meta.id
    THEN [k \in 1..Len(xml) |->
            IF xml[k].id = plugin.meta.id THEN PluginElement(plugin) ELSE xml[k]]
    ELSE Append(xml, PluginElement(plugin))

\* _RepoConfig._add
Add(xml, plugin) == Append(xml, PluginElement(plugin))

RECURSIVE AddAll(_, _)
AddAll(xml, ps) ==
    IF ps = <<>> THEN xml ELSE AddAll(Add(xml, Head(ps)), Tail(ps))

\* A root that starts from the elements of the file on disk.
RootFromFile == fs["repo_config"].elems

\* etree.Element("plugins"): a root without children.
Root == <<>>

\* _RepoConfig.__init__: a new <plugins> root, then _add for each plugin.
RepoConfigInit(ps) == AddAll(Root, ps)

\* The file as open(path, "a") would leave it: what it held is kept.
OpenedForAppend == [fs["repo_config"] EXCEPT !.exists = TRUE, !.closed = FALSE]

\* The file as ElementTree.write's open(path, "w") leaves it: empty.
OpenedForWrite == [exists |-> TRUE, elems |-> <<>>, torn |-> FALSE, closed |-> FALSE]

\* Whether ElementTree can serialize the element: no attribute is None.
Serializable(elem) == elem.id # None /\ elem.version # None

\* _IndexFile.__init__: the template's plugin list.
IndexContext(ps) == [k \in 1..Len(ps) |-> [meta |-> ps[k].meta, repo |-> ps[k].url.repo]]

----------------------------------------------------------------------------
(* The update pipeline: main, its tasks and asyncio.gather. *)

N == Len(config)
Tasks == 1..N

Settled(i) == task[i].pc \in { "done", "failed" }

\* A gather that waits until every task has settled, whatever its outcome.
GatherAllSettled == \A i \in Tasks : Settled(i)

\* gather's future has its result once every task has returned.
GatherDone == \A i \in Tasks : task[i].pc = "done"

\* The results in the order the tasks finished.
GatherResultByArrival == [k \in 1..Len(arrival) |-> task[arrival[k]].result]

\* gather's result: the tasks' results in the order of the tasks.
GatherResult == [i \in Tasks |-> task[i].result]

\* The event loop still runs the tasks: until run() has cancelled what is
\* left and closed the loop.
LoopRunning == mainpc \notin { "exit_ok", "exit_fail" }

\* A gather whose future takes the exception of whichever task raised last.
TaskRaisesLast(i, e) ==
    /\ task' = [task EXCEPT ![i].pc = "failed", ![i].err = e]
    /\ arrival' = Append(arrival, i)
    /\ gather_exc' = i

\* A task raises: it is done with an exception, and gather's future takes
\* the exception unless it already holds one.
TaskRaises(i, e) ==
    /\ task' = [task EXCEPT ![i].pc = "failed", ![i].err = e]
    /\ arrival' = Append(arrival, i)
    /\ gather_exc' = IF gather_exc = 0 THEN i ELSE gather_exc

InitPipeline ==
    /\ config \in Configs
    /\ github \in [Repos -> Worlds]
    /\ prior \in PriorFiles
    /\ task = [i \in 1..Len(config) |->
                 [pc |-> "listing", url |-> NoUrl, result |-> NoPlugin, err |-> ""]]
    /\ arrival = <<>>
    /\ gather_exc = 0
    /\ mainpc = "gather"
    /\ plugins = <<>>
    /\ repo_config = <<>>
    /\ index_context = <<>>
    /\ fs = [f \in {"repo_config", "index"} |-> IF f = "repo_config" THEN prior ELSE NoFile]

\* _Plugin.get, from the release listing's response to the download's request.
ReleaseResponse(i) ==
    /\ LoopRunning
    /\ task[i].pc = "listing"
    /\ LET r == ResolveAsset(github[config[i].repo], config[i].repo, config[i].artifact)
       IN  IF Failed(r)
           THEN TaskRaises(i, r.err)
           ELSE /\ task' = [task EXCEPT ![i].pc = "download", ![i].url = Val(r)]
                /\ UNCHANGED << arrival, gather_exc >>
    /\ UNCHANGED << config, github, prior, mainpc, plugins, repo_config, index_context, fs >>

\* _Plugin.get, from the download's response to its return: _Plugin(url, jar).
DownloadResponse(i) ==
    /\ LoopRunning
    /\ task[i].pc = "download"
    /\ LET w == github[config[i].repo]
           p == NewPlugin(task[i].url, w.jar)
       IN  IF ~ w.download
           THEN TaskRaises(i, "ClientError")
           ELSE IF Failed(p)
           THEN TaskRaises(i, p.err)
           ELSE /\ task' = [task EXCEPT ![i].pc = "done", ![i].result = Val(p)]
                /\ arrival' = Append(arrival, i)
                /\ UNCHANGED gather_exc
    /\ UNCHANGED << config, github, prior, mainpc, plugins, repo_config, index_context, fs >>

\* main: `await gather(*tasks)` raises the exception gather's future holds.
GatherRaises ==
    /\ mainpc = "gather"
    /\ gather_exc # 0
    /\ mainpc' = "raised"
    /\ UNCHANGED << config, github, prior, task, arrival, gather_exc, plugins,
                    repo_config, index_context, fs >>

\* main: gather returns; _RepoConfig(plugins) is built.
GatherReturns ==
    /\ mainpc = "gather"
    /\ GatherDone
    /\ plugins' = GatherResult
    /\ repo_config' = RepoConfigInit(plugins')
    /\ mainpc' = "write_open"
    /\ UNCHANGED << config, github, prior, task, arrival, gather_exc, index_context, fs >>

\* _RepoConfig.write: the file is opened for writing at the target path,
\* which truncates it.
WriteOpen ==
    /\ mainpc = "write_open"
    /\ fs' = [fs EXCEPT !["repo_config"] = OpenedForWrite]
    /\ mainpc' = "write_elems"
    /\ UNCHANGED << config, github, prior, task, arrival, gather_exc, plugins,
                    repo_config, index_context >>

\* _RepoConfig.write: the next <plugin> element is serialized into the file;
\* an attribute that is None raises inside the element.
WriteElement ==
    /\ mainpc = "write_elems"
    /\ LET f == fs["repo_config"]
           k == Len(f.elems) + 1
       IN  /\ k <= Len(repo_config)
           /\ IF Serializable(repo_config[k])
              THEN /\ fs' = [fs EXCEPT !["repo_config"].elems = Append(f.elems, repo_config[k])]
                   /\ mainpc' = "write_elems"
              ELSE /\ fs' = [fs EXCEPT !["repo_config"].torn = TRUE]
                   /\ mainpc' = "raised"
    /\ UNCHANGED << config, github, prior, task, arrival, gather_exc, plugins,
                    repo_config, index_context >>

\* _RepoConfig.write: the root is closed and the file with it;
\* _IndexFile(user, plugins) is built.
WriteClose ==
    /\ mainpc = "write_elems"
    /\ Len(fs["repo_config"].elems) = Len(repo_config)
    /\ fs' = [fs EXCEPT !["repo_config"].closed = TRUE]
    /\ index_context' = IndexContext(plugins)
    /\ mainpc' = "index"
    /\ UNCHANGED << config, github, prior, task, arrival, gather_exc, plugins, repo_config >>

\* _RepoConfig.write fails where it stands: mkdir or open raises, a write
\* raises, or the process dies.
WriteFails ==
    /\ mainpc \in { "write_open", "write_elems" }
    /\ mainpc' = "raised"
    /\ UNCHANGED << config, github, prior, task, arrival, gather_exc, plugins,
                    repo_config, index_context, fs >>

\* _IndexFile.write, and main returns 0.
IndexWrite ==
    /\ mainpc = "index"
    /\ fs' = [fs EXCEPT !["index"] = WholeFile(index_context)]
    /\ mainpc' = "exit_ok"
    /\ UNCHANGED << config, github, prior, task, arrival, gather_exc, plugins,
                    repo_config, index_context >>

\* run(main()) after main raised: the tasks still pending are cancelled and
\* the loop is closed.
RunCleanup ==
    /\ mainpc = "raised"
    /\ task' = [i \in Tasks |-> IF Settled(i) THEN task[i]
                                ELSE [task[i] EXCEPT !.pc = "cancelled"]]
    /\ mainpc' = "exit_fail"
    /\ UNCHANGED << config, github, prior, arrival, gather_exc, plugins,
                    repo_config, index_context, fs >>

Init ==
    /\ InitPipeline
    /\ r_pc = "idle" /\ r_content = <<>> /\ r_result = Raise("")
    /\ m_pc = {} /\ m_jar = Jar(<<>>, FALSE, <<>>)
    /\ m_update = Raise("") /\ m_build = Raise("")

Next ==
    \/ \E i \in Tasks : ReleaseResponse(i) /\ UNCHANGED << releaseVars, metaVars >>
    \/ \E i \in Tasks : DownloadResponse(i) /\ UNCHANGED << releaseVars, metaVars >>
    \/ GatherRaises /\ UNCHANGED << releaseVars, metaVars >>
    \/ GatherReturns /\ UNCHANGED << releaseVars, metaVars >>
    \/ WriteOpen /\ UNCHANGED << releaseVars, metaVars >>
    \/ WriteElement /\ UNCHANGED << releaseVars, metaVars >>
    \/ WriteClose /\ UNCHANGED << releaseVars, metaVars >>
    \/ WriteFails /\ UNCHANGED << releaseVars, metaVars >>
    \/ IndexWrite /\ UNCHANGED << releaseVars, metaVars >>
    \/ RunCleanup /\ UNCHANGED << releaseVars, metaVars >>

Spec == Init /\ [][Next]_vars

----------------------------------------------------------------------------
(* _GitHubRelease.get alone, on every listing within the bounds. *)

Listings ==
    UNION { [1..n -> { Release(t, {}) : t \in Tags }] : n \in 0..MaxReleases }

IdlePipeline ==
    /\ config = <<>> /\ github = [r \in Repos |-> World(Raise("ClientError"), FALSE, Jar(<<>>, FALSE, <<>>))]
    /\ prior = NoFile /\ task = <<>> /\ arrival = <<>> /\ gather_exc = 0
    /\ mainpc = "idle" /\ plugins = <<>> /\ repo_config = <<>> /\ index_context = <<>>
    /\ fs = [f \in {"repo_config", "index"} |-> NoFile]

InitRelease ==
    /\ IdlePipeline
    /\ r_pc = "request" /\ r_content \in Listings /\ r_result = Raise("")
    /\ m_pc = {} /\ m_jar = Jar(<<>>, FALSE, <<>>)
    /\ m_update = Raise("") /\ m_build = Raise("")

\* The listing's response arrives and get(user, repo) returns or raises.
GetLatest ==
    /\ r_pc = "request"
    /\ r_result' = GitHubReleaseGet(r_content, NoTag)
    /\ r_pc' = "done"
    /\ UNCHANGED << r_content, pipelineVars, metaVars >>

NextRelease == GetLatest

SpecRelease == InitRelease /\ [][NextRelease]_vars

----------------------------------------------------------------------------
(* Metadata extraction alone, on every archive within the bounds. *)

Injective(s) == \A i, j \in 1..Len(s) : s[i] = s[j] => i = j

Shapes ==
    { s \in UNION { [1..n -> TopEntries] : n \in 0..Cardinality(TopEntries) } :
        Injective(s) }

Docs ==
    { NoDoc,
      Descriptor("A", "1.0", <<SinceBuild>>),
      Descriptor("A", "1.0", <<>>),
      Without(Descriptor("A", "1.0", <<SinceBuild>>), "id") }

LibSeqs ==
    { l \in UNION { [1..n -> [name : LibNames, doc : Docs]] : n \in 0..MaxLib } :
        \A i, j \in 1..Len(l) : l[i].name = l[j].name => i = j }

HasPluginDir(s) == \E k \in 1..Len(s) : s[k] = PluginDir

Jars ==
    { Jar(s, TRUE, l) : s \in { x \in Shapes : HasPluginDir(x) }, l \in LibSeqs }
      \cup { Jar(s, FALSE, <<>>) : s \in Shapes }

InitMeta ==
    /\ IdlePipeline
    /\ r_pc = "idle" /\ r_content = <<>> /\ r_result = Raise("")
    /\ m_pc = {} /\ m_jar \in Jars
    /\ m_update = Raise("") /\ m_build = Raise("")

\* update.py reads the archive: _Plugin._meta(jar)
ExtractUpdate ==
    /\ "update" \notin m_pc
    /\ m_update' = [lib |-> PluginLibrary(m_jar), res |-> Meta(m_jar)]
    /\ m_pc' = m_pc \cup {"update"}
    /\ UNCHANGED << m_jar, m_build, pipelineVars, releaseVars >>

\* build.py reads the archive: PluginContext._metadata(jar)
ExtractBuild ==
    /\ "build" \notin m_pc
    /\ m_build' = [lib |-> BuildLibrary(m_jar), res |-> Metadata(m_jar)]
    /\ m_pc' = m_pc \cup {"build"}
    /\ UNCHANGED << m_jar, m_update, pipelineVars, releaseVars >>

NextMeta == ExtractUpdate \/ ExtractBuild

SpecMeta == InitMeta /\ [][NextMeta]_vars

----------------------------------------------------------------------------
(* Properties of the pipeline (Spec). *)

RegistryFile == fs["repo_config"]

SomeTaskFailed == \E i \in Tasks : task[i].pc = "failed"

AfterJoin == mainpc \in { "write_open", "write_elems", "index", "exit_ok" }

\* C1: if a resolution task has failed, the run does not get past the join
\* and the registry file is what it was before the run.
C1_NoWriteAfterFailure ==
    SomeTaskFailed =>
        /\ RegistryFile = prior
        /\ mainpc \in { "gather", "raised", "exit_fail" }

\* A run that ended in failure with one task failed and another one done.
C1_Witness ==
    /\ mainpc = "exit_fail"
    /\ \E i, j \in Tasks : task[i].pc = "failed" /\ task[j].pc = "done"
    /\ prior # NoFile

ExpectedPlugin(c) ==
    NewPlugin(Val(ResolveAsset(github[c.repo], c.repo, c.artifact)), github[c.repo].jar)

\* C6: past the join every task has returned, and the plugins, the registry
\* and the rendered list follow the configured order, whatever the order
\* in which the tasks finished.
C6_ConfiguredOrder ==
    /\ (plugins # <<>> \/ repo_config # <<>> \/ index_context # <<>>) =>
          \A i \in Tasks : task[i].pc = "done"
    /\ AfterJoin =>
          /\ Len(plugins) = N
          /\ \A i \in Tasks :
                /\ plugins[i] = Val(ExpectedPlugin(config[i]))
                /\ repo_config[i] = PluginElement(Val(ExpectedPlugin(config[i])))
    /\ mainpc = "exit_ok" =>
          /\ RegistryFile = WholeFile([i \in Tasks |-> PluginElement(Val(ExpectedPlugin(config[i])))])
          /\ Len(index_context) = N
          /\ \A i \in Tasks : index_context[i].meta = Val(ExpectedPlugin(config[i])).meta
          /\ fs["index"] = WholeFile(index_context)

\* A successful run of two different plugins whose second task finished first.
C6_Witness ==
    /\ mainpc = "exit_ok"
    /\ arrival = <<2, 1>>
    /\ plugins[1] # plugins[2]

----------------------------------------------------------------------------
(* Properties of _GitHubRelease.get (SpecRelease). *)

IdentHigher(a, b) ==
    \/ a.num /\ b.num /\ a.val > b.val
    \/ ~ a.num /\ b.num
    \/ ~ a.num /\ ~ b.num /\ a.val > b.val

\* Precedence of non-empty pre-releases: the first differing identifier
\* decides; if there is none, the longer one is higher.
PreHigher(p, q) ==
    \E k \in 1..Len(p) :
        /\ \A j \in 1..(k - 1) : j <= Len(q) /\ p[j] = q[j]
        /\ \/ k <= Len(q) /\ IdentHigher(p[k], q[k])
           \/ k = Len(q) + 1

\* Semantic-version precedence: x is higher than y.
Higher(x, y) ==
    \/ x.major > y.major
    \/ x.major = y.major /\ x.minor > y.minor
    \/ x.major = y.major /\ x.minor = y.minor /\ x.patch > y.patch
    \/ /\ x.major = y.major /\ x.minor = y.minor /\ x.patch = y.patch
       /\ \/ x.pre = <<>> /\ y.pre # <<>>
          \/ x.pre # <<>> /\ y.pre # <<>> /\ PreHigher(x.pre, y.pre)

AllTagsValid == \A k \in 1..Len(r_content) : r_content[k].tag_name.ok

\* C7: on a non-empty listing of valid tags, get without a tag returns a
\* release of the listing whose version no other release's version is
\* higher than.
C7_LatestIsMaximum ==
    (r_pc = "done" /\ r_content # <<>> /\ AllTagsValid) =>
        /\ ~ Failed(r_result)
        /\ \E k \in 1..Len(r_content) : r_content[k] = Val(r_result).release
        /\ Val(r_result).version = Val(r_result).release.tag_name.ver
        /\ \A k \in 1..Len(r_content) :
              ~ Higher(r_content[k].tag_name.ver, Val(r_result).version)

\* v2.0.0-beta listed before 2.0.0: the release without the pre-release is taken.
C7_Witness ==
    /\ r_pc = "done"
    /\ Len(r_content) = 2
    /\ r_content[1].tag_name = T(1, V(2, 0, 0, <<Beta>>))
    /\ r_content[2].tag_name = T(0, V(2, 0, 0, <<>>))
    /\ ~ Failed(r_result)
    /\ Val(r_result).release = r_content[2]

----------------------------------------------------------------------------
(* Properties of the metadata extraction (SpecMeta). *)

ExactlyOneTopDirectory == Len(m_jar.top) = 1 /\ m_jar.top[1].is_dir

\* C8: extraction fails for every archive that does not have exactly one
\* top-level entry, a directory.
C8_SingleRootRequired ==
    /\ ("update" \in m_pc /\ ~ ExactlyOneTopDirectory) => Failed(m_update.res)
    /\ ("build" \in m_pc /\ ~ ExactlyOneTopDirectory) => Failed(m_build.res)

\* The descriptor update.py reads has the four text children and no
\* <idea-version>.
DescriptorWithoutIdeaVersion ==
    /\ "update" \in m_pc
    /\ ~ Failed(m_update.lib)
    /\ LET doc == m_jar.lib[Val(m_update.lib)].doc
       IN  doc.present /\ DOMAIN doc.text = TextKeys /\ doc.iv = <<>>

\* C9: a descriptor with the four text children and no <idea-version> is
\* extracted, with an empty compatibility mapping.
C9_IdeaVersionOptional ==
    DescriptorWithoutIdeaVersion =>
        /\ ~ Failed(m_update.res)
        /\ DOMAIN Val(m_update.res).iv = {}

BothRead == m_pc = { "update", "build" }

\* C10 as claimed: both rules choose the same entry, and one raises
\* 'Could not find' exactly when the other does.
C10_SameLibrary ==
    BothRead => m_update.lib = m_build.lib

\* C10 amended: a name that starts with the root's name contains it.  When
\* update.py chooses an entry, build.py chooses one at the same or an
\* earlier position, the same one unless an earlier entry contains the
\* root's name without starting with it; when build.py raises 'Could not
\* find', so does update.py; up to the choice both fail alike.
C10_PrefixRuleRefinesContainment ==
    BothRead =>
        /\ ~ Failed(m_update.lib) =>
              /\ ~ Failed(m_build.lib)
              /\ Val(m_build.lib) <= Val(m_update.lib)
              /\ Contains(m_jar.lib[Val(m_build.lib)].name, RootName)
              /\ Val(m_build.lib) < Val(m_update.lib) =>
                    ~ StartsWith(m_jar.lib[Val(m_build.lib)].name, RootName)
        /\ m_build.lib.err = "CouldNotFind" => m_update.lib.err = "CouldNotFind"
        /\ (Failed(m_update.lib) /\ m_update.lib.err # "CouldNotFind") =>
              m_build.lib = m_update.lib
        /\ Failed(m_build.lib) => Failed(m_update.lib)

\* lib/ lists xp before px: build.py takes xp, update.py takes px.
C10_Witness ==
    /\ BothRead
    /\ ~ Failed(m_update.lib) /\ ~ Failed(m_build.lib)
    /\ Val(m_build.lib) = 1 /\ Val(m_update.lib) = 2
    /\ m_jar.lib[1].name = <<"x", "p">>

====
